---- MODULE Spec2Model ----
(***************************************************************************)
(* trase: the Points series renderer (src/src/frontend/Points.tcc), the    *)
(* Axis tick layout (src/src/frontend/Axis.cpp) and round_off              *)
(* (src/src/Vector.hpp).                                                   *)
(*                                                                         *)
(* A float is modelled as an exact value [n, d]: the rational n/d (d > 0,  *)
(* lowest terms), or a non-finite IEEE value when d = 0 (n = 1: +inf,      *)
(* n = -1: -inf, n = 0: NaN).  Rounding of the 24-bit mantissa and the     *)
(* sign of zero are not modelled.                                          *)
(***************************************************************************)
EXTENDS Integers, Sequences, FiniteSets, TLC

(***************************************************************************)
(* Bounds of the model.                                                    *)
(***************************************************************************)
MaxFrames == 2
MaxRows == 2

\* the number of series registered on one axis
MaxChildren == 4

\* the digit counts and the numerators of the values given to round_off
MaxDigits == 3
MaxNumer == 30

\* the largest finite float of the model: a larger magnitude is infinite
FltMax == 1000000

(***************************************************************************)
(* float arithmetic                                                        *)
(***************************************************************************)
AbsI(a) == IF a < 0 THEN -a ELSE a

SgnI(a) == IF a < 0 THEN -1 ELSE IF a > 0 THEN 1 ELSE 0

RECURSIVE GcdI(_, _)
GcdI(a, b) == IF b = 0 THEN a ELSE GcdI(b, a % b)

\* the float n/d; a zero denominator gives the non-finite value of IEEE x/0
Flt(n, d) ==
  IF d = 0 THEN [n |-> SgnI(n), d |-> 0]
  ELSE IF AbsI(n) \div AbsI(d) > FltMax THEN [n |-> SgnI(n) * SgnI(d), d |-> 0]
  ELSE LET g == GcdI(AbsI(n), AbsI(d))
           s == SgnI(d)
       IN  [n |-> (s * n) \div g, d |-> (s * d) \div g]

FInt(k) == [n |-> k, d |-> 1]

NaN == [n |-> 0, d |-> 0]

PosInf == [n |-> 1, d |-> 0]

IsNaN(a) == a.d = 0 /\ a.n = 0

IsFinite(a) == a.d > 0

FNeg(a) == [n |-> -a.n, d |-> a.d]

FAdd(a, b) ==
  IF IsNaN(a) \/ IsNaN(b) THEN NaN
  ELSE IF a.d = 0 /\ b.d = 0 THEN (IF a.n = b.n THEN a ELSE NaN)
  ELSE IF a.d = 0 THEN a
  ELSE IF b.d = 0 THEN b
  ELSE Flt(a.n * b.d + b.n * a.d, a.d * b.d)

FSub(a, b) == FAdd(a, FNeg(b))

FMul(a, b) == Flt(a.n * b.n, a.d * b.d)

FInv(b) ==
  IF b.d = 0 THEN (IF b.n = 0 THEN NaN ELSE FInt(0))
  ELSE IF b.n = 0 THEN PosInf
  ELSE Flt(b.d, b.n)

FDiv(a, b) == FMul(a, FInv(b))

\* a < b, false when either is NaN
FLt(a, b) ==
  IF IsNaN(a) \/ IsNaN(b) THEN FALSE
  ELSE IF a.d = 0 /\ b.d = 0 THEN a.n < b.n
  ELSE IF a.d = 0 THEN a.n < 0
  ELSE IF b.d = 0 THEN b.n > 0
  ELSE a.n * b.d < b.n * a.d

\* a == b, false when either is NaN
FEq(a, b) == ~IsNaN(a) /\ ~IsNaN(b) /\ a = b

FLe(a, b) == FLt(a, b) \/ FEq(a, b)

FGe(a, b) == FLe(b, a)

FFloor(a) == IF a.d = 0 THEN a ELSE FInt(a.n \div a.d)

FCeil(a) == IF a.d = 0 THEN a ELSE FInt(-((-a.n) \div a.d))

\* static_cast<int>(float) of a finite value: truncation toward zero
ToInt(a) == IF a.n >= 0 THEN a.n \div a.d ELSE -((-a.n) \div a.d)

(***************************************************************************)
(* State.  Indices into m_data / m_times are the 0-based C++ indices;      *)
(* element k of the C++ vector is element k + 1 of the sequence.           *)
(***************************************************************************)
VARIABLES
  m_times,       \* Points: timestamps of the registered frames
  m_data,        \* Points: the registered frames (DataWithAesthetic)
  m_frame_info,  \* Points: [frame_above, w1, w2] of the last update_frame_info
  draw_kind,     \* "none", "plot" (draw(backend, time)) or "frames" (draw(animatedBackend))
  draw_time,     \* the queryTime of the last draw(backend, time)
  calls,         \* the backend calls of the last draw, in order
  reads,         \* indices of the frames whose channels the last draw asked for
  failed,        \* how the last draw ended: "ok", "exception" or "fault"
  row_reads,     \* the row indices (0-based) the last draw read of its frames
  m_limits,      \* Axis: data-space box, [bmin, bmax] over (x, y, color, size)
  m_pixels,      \* Axis: viewport, [bmin, bmax] over (x, y)
  m_nx_ticks,    \* Axis: requested number of x ticks (0: automatic)
  m_ny_ticks,    \* Axis: requested number of y ticks (0: automatic)
  m_tick_info,   \* Axis: [x_val, x_pos, y_val, y_pos]
  tick_state     \* m_tick_info is as constructed ("none"), of the present limits,
                 \* viewport and counts ("current") or of earlier ones ("stale");
                 \* "hung": update_tick_information did not return
VARIABLES
  ticks_before   \* what the update_tick_information that wrote the present
                 \* m_tick_info found: more x and y entries than it wrote
                 \* (shrunk), an m_tick_info already "current" (again)
VARIABLES
  m_children,    \* Axis: the registered series, in order
  axis_call      \* the last points / line / histogram / plot(n) call on the axis:
                 \* [op, n, outcome, id]
VARIABLES
  rounding       \* a use of round_off: [x, n, stage, once, twice], once =
                 \* round_off(x, n) from stage "once" on, twice =
                 \* round_off(once, n) at stage "twice"

vars == <<m_times, m_data, m_frame_info, draw_kind, draw_time, calls, reads, failed, row_reads,
          m_limits, m_pixels, m_nx_ticks, m_ny_ticks, m_tick_info, tick_state,
          ticks_before, m_children, axis_call, rounding>>

points_vars == <<m_times, m_data, m_frame_info, draw_kind, draw_time, calls, reads, failed, row_reads>>

axis_vars == <<m_limits, m_pixels, m_nx_ticks, m_ny_ticks, m_tick_info, tick_state, ticks_before>>

plots_vars == <<m_children, axis_call>>

round_vars == <<rounding>>

(***************************************************************************)
(* Inputs: frames of a series.                                             *)
(***************************************************************************)
\* the data values of row i (1-based) of the k-th registered frame (0-based)
\* on every channel: they differ from frame to frame and from row to row
RowData(k, i) ==
  [ x     |-> FInt((2 * k + i) % 5),
    y     |-> FInt((k + 3 * i) % 5),
    color |-> FInt((3 * k + i + 1) % 5),
    size  |-> FInt((k + 2 * i + 2) % 5) ]

\* a DataWithAesthetic of r rows; color and size are optional channels
MkFrame(k, r, hc, hs) ==
  [ n         |-> r,
    x         |-> [i \in 1..r |-> RowData(k, i).x],
    y         |-> [i \in 1..r |-> RowData(k, i).y],
    has_color |-> hc,
    color     |-> IF hc THEN [i \in 1..r |-> RowData(k, i).color] ELSE <<>>,
    has_size  |-> hs,
    size      |-> IF hs THEN [i \in 1..r |-> RowData(k, i).size] ELSE <<>> ]

\* the frames a caller may register as the k-th frame of a series
FramesFor(k) == { MkFrame(k, r, hc, hs) : r \in 1..MaxRows, hc \in BOOLEAN, hs \in BOOLEAN }

\* timestamps of the frames after the first
Times == { FInt(1), FInt(2) }

\* the times a caller draws at: before, on, between and after the timestamps
QueryTimes == { Flt(-1, 4), FInt(0), Flt(1, 4), Flt(1, 2), FInt(1), Flt(3, 2), FInt(2), Flt(9, 4) }

\* what a read of a frame that m_data does not hold can yield (undefined
\* behaviour): a fault, or whatever the memory holds, read as a frame
\* what a read past the end of a channel may yield
GarbageValues == { FInt(0), FInt(3) }

GarbageFrames == { MkFrame(0, r, hc, hs) : r \in 0..1, hc \in BOOLEAN, hs \in BOOLEAN }

(***************************************************************************)
(* Axis: coordinate transform.                                             *)
(***************************************************************************)
\* Axis::to_display<Aesthetic>: the affine map of a data value to display
\* space, from the limits of that aesthetic (and the viewport for x and y);
\* y is flipped, color is a position on the colour scale starting at 0, size
\* a radius starting at 1
to_display(aes, v) ==
  LET lo == m_limits.bmin[aes]
      hi == m_limits.bmax[aes]
      u  == FDiv(FSub(v, lo), FSub(hi, lo))
  IN  CASE aes = "x"     -> FAdd(m_pixels.bmin.x, FMul(FSub(m_pixels.bmax.x, m_pixels.bmin.x), u))
        [] aes = "y"     -> FSub(m_pixels.bmax.y, FMul(FSub(m_pixels.bmax.y, m_pixels.bmin.y), u))
        [] aes = "color" -> u
        [] aes = "size"  -> FAdd(FInt(1), u)

\* Colormap::to_color: the colour at a position of the colour scale
to_color(v) == [at |-> v]

(***************************************************************************)
(* Vector<float, 4> arithmetic used by the blend.                          *)
(***************************************************************************)
VScale(w, p) == [k \in 1..4 |-> FMul(w, p[k])]

VAdd(p, q) == [k \in 1..4 |-> FAdd(p[k], q[k])]

(***************************************************************************)
(* Points                                                                  *)
(***************************************************************************)
NumFrames == Len(m_data)

InRange(f) == f >= 0 /\ f < NumFrames

\* m_data[f]: the frame, or (out of range) what the memory holds
FrameAt(f, garbage) == IF InRange(f) THEN m_data[f + 1] ELSE garbage.frame

\* the frame d as a loop over rows rows reads it: a read past the end of a
\* channel yields what the memory holds there
Padded(d, rows, garbage) ==
  LET pad(ch) == [i \in 1..(IF rows > d.n THEN rows ELSE d.n) |->
                    IF i <= d.n THEN ch[i] ELSE garbage.value]
  IN  [ d EXCEPT !.x = pad(d.x), !.y = pad(d.y),
                 !.color = IF d.has_color THEN pad(d.color) ELSE <<>>,
                 !.size = IF d.has_size THEN pad(d.size) ELSE <<>> ]

\* check_aesthetic<T>(data): data.begin<T>() throws when the channel is absent
check_aesthetic(aes, data) == IF aes = "color" THEN data.has_color ELSE data.has_size

\* update_frame_info(time): frame_above is the first frame whose timestamp is
\* >= time, the last frame when there is none; w1 is the linear fraction
\* toward frame_above, w2 = 1 - w1
update_frame_info(time) ==
  LET above == { k \in 0..(Len(m_times) - 1) : FGe(m_times[k + 1], time) }
      fa    == IF above = {} THEN Len(m_times) - 1
               ELSE CHOOSE k \in above : \A j \in above : k <= j
  IN  IF above = {} \/ fa = 0
      THEN [frame_above |-> fa, w1 |-> FInt(1), w2 |-> FInt(0)]
      ELSE LET w == FDiv(FSub(time, m_times[fa]), FSub(m_times[fa + 1], m_times[fa]))
           IN  [frame_above |-> fa, w1 |-> w, w2 |-> FSub(FInt(1), w)]

\* mutant of to_pixel: an absent size gives 0, the bottom of the scale
to_pixel_absent_size_zero(x, y, c, s, have_color, have_size) ==
  << to_display("x", x),
     to_display("y", y),
     IF have_color THEN to_display("color", c) ELSE FInt(0),
     IF have_size THEN to_display("size", s) ELSE FInt(0) >>

\* the to_pixel lambda of draw_frames and draw_plot
to_pixel(x, y, c, s, have_color, have_size) ==
  << to_display("x", x),
     to_display("y", y),
     IF have_color THEN to_display("color", c) ELSE FInt(0),
     IF have_size THEN to_display("size", s) ELSE FInt(1) >>

Call(op, a) == [op |-> op, a |-> a]

\* fill_color(m_colormap->to_color(p[2])); circle({p[0], p[1]}, p[3])
CircleCalls(p) == << Call("fill_color", <<to_color(p[3])>>), Call("circle", <<p[1], p[2], p[4]>>) >>

\* mutant of RowPixel: the iterators are read at row 0, not at row i
RowPixel_first_row(d, i, have_color, have_size) ==
  to_pixel(d.x[1], d.y[1],
           IF have_color THEN d.color[1] ELSE d.x[1],
           IF have_size THEN d.size[1] ELSE d.x[1],
           have_color, have_size)

\* row i of frame d through to_pixel; an absent colour or size is given a
\* dummy that to_pixel does not use (the x iterator in draw_plot, 0.f in
\* draw_frames)
RowPixel(d, i, have_color, have_size) ==
  to_pixel(d.x[i], d.y[i],
           IF have_color THEN d.color[i] ELSE d.x[i],
           IF have_size THEN d.size[i] ELSE d.x[i],
           have_color, have_size)

\* mutant of exactly_on_frame: the test compares with the wrong constant
exactly_on_frame_wrong_constant(w2) == FEq(w2, FInt(1))

\* if (w2 == 0.0f): the draw is exactly on a single frame
exactly_on_frame(w2) == FEq(w2, FInt(0))

\* the calls of one loop over the rows: fill_color and circle for each pixel of ps
RowCalls(ps) == [k \in 1..(2 * Len(ps)) |-> CircleCalls(ps[(k + 1) \div 2])[2 - (k % 2)]]

\* Points::draw_plot(backend) with the frame info fi.  garbage is what a read
\* outside m_data or past the end of a frame yields: a fault, or a frame / a
\* value
draw_plot(fi, garbage) ==
  LET f  == fi.frame_above
      w1 == fi.w1
      w2 == fi.w2
  IN  IF ~InRange(f) /\ garbage.fault
      THEN [calls |-> <<>>, reads |-> {f}, rows |-> {}, failed |-> "fault"]
      ELSE
        LET d1         == FrameAt(f, garbage)
            have_color == check_aesthetic("color", d1)
            have_size  == check_aesthetic("size", d1)
            rows       == FrameAt(0, garbage).n
            stroke     == << Call("stroke_width", <<FInt(0)>>) >>
        IN  IF exactly_on_frame(w2)
            THEN \* exactly on a single frame
                 IF d1.n < rows /\ garbage.fault
                 THEN [ calls  |-> stroke \o RowCalls([i \in 1..d1.n |->
                                     RowPixel(d1, i, have_color, have_size)]),
                        reads  |-> {f},
                        rows   |-> 0..d1.n,
                        failed |-> "fault" ]
                 ELSE [ calls  |-> stroke \o RowCalls([i \in 1..rows |->
                                     RowPixel(Padded(d1, rows, garbage), i, have_color, have_size)]),
                        reads  |-> {f},
                        rows   |-> 0..(rows - 1),
                        failed |-> "ok" ]
            ELSE \* between two frames
                 LET d0 == FrameAt(f - 1, garbage)
                 IN  IF ~InRange(f - 1) /\ garbage.fault
                     THEN [calls |-> stroke, reads |-> {f, f - 1}, rows |-> {}, failed |-> "fault"]
                     ELSE
                     IF (have_color /\ ~d0.has_color) \/ (have_size /\ ~d0.has_size)
                     THEN \* m_data[f - 1].begin<color / size>() throws
                          [calls |-> stroke, reads |-> {f, f - 1}, rows |-> {}, failed |-> "exception"]
                     ELSE
                     LET least == IF d1.n < d0.n THEN d1.n ELSE d0.n
                     IN  IF least < rows /\ garbage.fault
                         THEN [ calls  |-> stroke \o RowCalls([i \in 1..least |->
                                             VAdd(VScale(w1, RowPixel(d1, i, have_color, have_size)),
                                                  VScale(w2, RowPixel(d0, i, have_color, have_size)))]),
                                reads  |-> {f, f - 1},
                                rows   |-> 0..least,
                                failed |-> "fault" ]
                         ELSE [ calls  |-> stroke \o RowCalls([i \in 1..rows |->
                                             VAdd(VScale(w1, RowPixel(Padded(d1, rows, garbage), i, have_color, have_size)),
                                                  VScale(w2, RowPixel(Padded(d0, rows, garbage), i, have_color, have_size)))]),
                                reads  |-> {f, f - 1},
                                rows   |-> 0..(rows - 1),
                                failed |-> "ok" ]

\* fill_color(...); add_animated_circle({p[0], p[1]}, p[3], m_times[f])
AnimatedCalls(p, time) ==
  << Call("fill_color", <<to_color(p[3])>>), Call("add_animated_circle", <<p[1], p[2], p[4], time>>) >>

\* the loops of draw_frames from row i (1-based) and frame f (0-based) on
RECURSIVE FramesLoop(_, _, _, _, _, _, _)
FramesLoop(i, f, rows, have_color, have_size, garbage, acc) ==
  IF i > rows THEN acc
  ELSE IF f >= Len(m_times)
  THEN FramesLoop(i + 1, 0, rows, have_color, have_size, garbage,
                  [acc EXCEPT !.calls = Append(@, Call("end_animated_circle", <<>>))])
  ELSE LET d == m_data[f + 1]
       IN  IF (have_color /\ ~d.has_color) \/ (have_size /\ ~d.has_size)
           THEN \* m_data[f].begin<color / size>() throws
                [acc EXCEPT !.reads = @ \cup {f}, !.failed = "exception"]
           ELSE IF i > d.n /\ garbage.fault
           THEN \* row i is past the end of frame f
                [acc EXCEPT !.reads = @ \cup {f}, !.rows = @ \cup {i - 1}, !.failed = "fault"]
           ELSE FramesLoop(i, f + 1, rows, have_color, have_size, garbage,
                  [acc EXCEPT !.reads = @ \cup {f},
                              !.rows = @ \cup {i - 1},
                              !.calls = @ \o AnimatedCalls(RowPixel(Padded(d, rows, garbage), i,
                                                                    have_color, have_size),
                                                           m_times[f + 1])])

\* Points::draw_frames(backend)
draw_frames(garbage) ==
  IF ~InRange(0) /\ garbage.fault
  THEN [calls |-> <<>>, reads |-> {0}, rows |-> {}, failed |-> "fault"]
  ELSE LET d0         == FrameAt(0, garbage)
           have_color == check_aesthetic("color", d0)
           have_size  == check_aesthetic("size", d0)
       IN  FramesLoop(1, 0, d0.n, have_color, have_size, garbage,
                      [ calls  |-> << Call("stroke_width", <<FInt(0)>>) >>,
                        reads  |-> {0},
                        rows   |-> {},
                        failed |-> "ok" ])

\* a frame of the series has fewer rows than frame 0
Ragged == \E k \in 1..NumFrames : m_data[k].n < m_data[1].n

\* the outcomes of reading a frame m_data does not hold, or a row past the
\* end of a frame
Outcomes ==
  {[fault |-> TRUE, frame |-> MkFrame(0, 0, FALSE, FALSE), value |-> FInt(0)]}
    \cup (IF NumFrames = 0
          THEN {[fault |-> FALSE, frame |-> g, value |-> FInt(0)] : g \in GarbageFrames}
          ELSE IF Ragged
          THEN {[fault |-> FALSE, frame |-> MkFrame(0, 0, FALSE, FALSE), value |-> v] : v \in GarbageValues}
          ELSE {})

(***************************************************************************)
(* Points: operations                                                      *)
(***************************************************************************)
\* add_frame(data, time): appends the frame and its timestamp.  Callers keep
\* the timestamps increasing; the first frame is registered at time 0
\* (plot_impl).  draw_kind, draw_time, calls, reads, row_reads and failed
\* observe the last draw of the present series: they are reset when the
\* series changes.
add_frame(data, time) ==
  /\ failed # "fault"
  /\ Len(m_data) < MaxFrames
  /\ Len(m_times) > 0 => FLt(m_times[Len(m_times)], time)
  /\ Len(m_times) = 0 => time = FInt(0)
  /\ m_data' = Append(m_data, data)
  /\ m_times' = Append(m_times, time)
  /\ draw_kind' = "none"
  /\ calls' = <<>>
  /\ reads' = {}
  /\ row_reads' = {}
  /\ failed' = "ok"
  /\ draw_time' = FInt(0)
  /\ UNCHANGED m_frame_info

\* mutant of draw: draw_plot without update_frame_info(time) before it
draw_without_update(time) ==
  /\ failed # "fault"
  /\ \E g \in Outcomes : \E r \in {draw_plot(m_frame_info, g)} :
           /\ calls' = r.calls
           /\ reads' = r.reads
           /\ row_reads' = r.rows
           /\ failed' = r.failed
  /\ draw_kind' = "plot"
  /\ draw_time' = time
  /\ UNCHANGED <<m_times, m_data, m_frame_info>>

\* Points::draw(backend, time): update_frame_info(time); draw_plot(backend)
draw(time) ==
  /\ failed # "fault"
  /\ \E g \in Outcomes : \E fi \in {update_frame_info(time)} : \E r \in {draw_plot(fi, g)} :
           /\ m_frame_info' = fi
           /\ calls' = r.calls
           /\ reads' = r.reads
           /\ row_reads' = r.rows
           /\ failed' = r.failed
  /\ draw_kind' = "plot"
  /\ draw_time' = time
  /\ UNCHANGED <<m_times, m_data>>

\* Points::draw(animatedBackend): draw_frames(backend)
draw_animated ==
  /\ failed # "fault"
  /\ \E g \in Outcomes : \E r \in {draw_frames(g)} :
           /\ calls' = r.calls
           /\ reads' = r.reads
           /\ row_reads' = r.rows
           /\ failed' = r.failed
  /\ draw_kind' = "frames"
  /\ UNCHANGED <<m_times, m_data, m_frame_info, draw_time>>

\* the frames of a series as the data model has them: every frame with the
\* row count of the first
SameRows(data) == Len(m_data) > 0 => data.n = m_data[1].n

AddFrame == (\E data \in FramesFor(Len(m_data)) : \E time \in Times \cup {FInt(0)} :
               SameRows(data) /\ add_frame(data, time))
            /\ UNCHANGED axis_vars /\ UNCHANGED plots_vars /\ UNCHANGED round_vars

Draw == (\E time \in QueryTimes : draw(time)) /\ UNCHANGED axis_vars /\ UNCHANGED plots_vars /\ UNCHANGED round_vars

DrawAnimated == draw_animated /\ UNCHANGED axis_vars /\ UNCHANGED plots_vars /\ UNCHANGED round_vars

\* the limits and viewports of the axis a series is drawn on
DrawLimits ==
  { [ bmin |-> [x |-> FInt(0), y |-> FInt(0), color |-> FInt(0), size |-> FInt(0)],
      bmax |-> [x |-> FInt(4), y |-> FInt(4), color |-> FInt(4), size |-> FInt(4)] ] }

DrawPixels ==
  { [bmin |-> [x |-> FInt(10), y |-> FInt(20)], bmax |-> [x |-> FInt(210), y |-> FInt(120)]] }

EmptyTickInfo == [x_val |-> <<>>, x_pos |-> <<>>, y_val |-> <<>>, y_pos |-> <<>>]

NoUpdateYet == [shrunk |-> FALSE, again |-> FALSE]

NoCall == [op |-> "none", n |-> 0, outcome |-> "ok", id |-> -1]

m_sig_digits == 2

\* round_off is about to be given x and n
Unrounded(x, n) == [x |-> x, n |-> n, stage |-> "input", once |-> x, twice |-> x]

\* a Points with no frame yet, on an axis with limits and a viewport
Init ==
  /\ m_times = <<>>
  /\ m_data = <<>>
  /\ m_frame_info = [frame_above |-> 0, w1 |-> FInt(1), w2 |-> FInt(0)]
  /\ draw_kind = "none"
  /\ draw_time = FInt(0)
  /\ calls = <<>>
  /\ reads = {}
  /\ failed = "ok"
  /\ row_reads = {}
  /\ m_limits \in DrawLimits
  /\ m_pixels \in DrawPixels
  /\ m_nx_ticks = 0
  /\ m_ny_ticks = 0
  /\ m_tick_info = EmptyTickInfo
  /\ tick_state = "none"
  /\ ticks_before = NoUpdateYet
  /\ m_children = <<>>
  /\ axis_call = NoCall
  /\ rounding = Unrounded(FInt(0), m_sig_digits)

Next == AddFrame \/ Draw \/ DrawAnimated

Spec == Init /\ [][Next]_vars

(***************************************************************************)
(* Properties of the Points renderer (checked under Spec).                 *)
(***************************************************************************)
CallsOf(op) == SelectSeq(calls, LAMBDA c : c.op = op)

\* a draw(backend, time) has just run on a series with at least one frame
PlotDrawn == draw_kind = "plot" /\ NumFrames >= 1

\* row i of the registered frame k in display space: position, position on
\* the colour scale (0 without colour) and radius (1 without size)
FramePixel(k, i) ==
  LET d == m_data[k + 1]
  IN  << to_display("x", d.x[i]),
         to_display("y", d.y[i]),
         IF d.has_color THEN to_display("color", d.color[i]) ELSE FInt(0),
         IF d.has_size THEN to_display("size", d.size[i]) ELSE FInt(1) >>

\* stroke_width(0), then for each pixel of ps in order fill_color immediately
\* followed by circle
CirclesFor(ps) ==
  [k \in 1..(1 + 2 * Len(ps)) |->
     IF k = 1 THEN [op |-> "stroke_width", a |-> <<FInt(0)>>]
     ELSE IF k % 2 = 0 THEN [op |-> "fill_color", a |-> <<to_color(ps[k \div 2][3])>>]
     ELSE [op |-> "circle", a |-> <<ps[k \div 2][1], ps[k \div 2][2], ps[k \div 2][4]>>]]

\* the two frames of a blended draw carry the same optional channels
BlendFramesAgree ==
  LET d1 == m_data[m_frame_info.frame_above + 1]
      d0 == m_data[m_frame_info.frame_above]
  IN  d1.has_color = d0.has_color /\ d1.has_size = d0.has_size

\* C1: after draw(backend, t) on a series with strictly increasing timestamps,
\* frame_above is the index of the earliest frame whose timestamp is >= t (the
\* last frame when t exceeds them all), w1 + w2 = 1, and w1 is the linear
\* fraction toward frame_above: t = w1 * time(frame_above) + w2 * time(frame_above - 1)
\* between two frames, w1 = 1 when t is clamped to an endpoint frame; w1 is
\* applied to frame_above and w2 to frame_above - 1 (seen in the circles drawn
\* when the two frames carry the same optional channels)
FrameInfoResolved ==
  PlotDrawn =>
    LET fa == m_frame_info.frame_above
        w1 == m_frame_info.w1
        w2 == m_frame_info.w2
        t  == draw_time
        T(k) == m_times[k + 1]
    IN  /\ InRange(fa)
        /\ \A j \in 0..(fa - 1) : FLt(T(j), t)
        /\ FGe(T(fa), t) \/ fa = NumFrames - 1
        /\ FAdd(w1, w2) = FInt(1)
        /\ IF fa >= 1 /\ FGe(T(fa), t)
           THEN FAdd(FMul(w1, T(fa)), FMul(w2, T(fa - 1))) = t
           ELSE w1 = FInt(1)
        /\ (~FEq(w2, FInt(0)) /\ BlendFramesAgree) =>
             calls = CirclesFor([i \in 1..m_data[1].n |->
                       VAdd(VScale(w1, FramePixel(fa, i)), VScale(w2, FramePixel(fa - 1, i)))])

\* C1 witness: frames at times {0, 1} drawn at t = 0.25 give w1 = 0.25 toward
\* frame 1 and w2 = 0.75 toward frame 0, and the circles are drawn
FrameInfoQuarter ==
  /\ PlotDrawn
  /\ m_times = <<FInt(0), FInt(1)>>
  /\ draw_time = Flt(1, 4)
  /\ m_frame_info = [frame_above |-> 1, w1 |-> Flt(1, 4), w2 |-> Flt(3, 4)]
  /\ BlendFramesAgree
  /\ Len(CallsOf("circle")) = m_data[1].n

\* C2: in draw(backend, t) with w2 # 0 every row i is drawn with exactly one
\* circle whose (pixel x, pixel y, colour-scale position, radius) is
\* w1 * to_pixel(row i of frame_above) + w2 * to_pixel(row i of frame_above - 1)
BlendOfTransformedRows ==
  (PlotDrawn /\ ~FEq(m_frame_info.w2, FInt(0))) =>
    LET fa == m_frame_info.frame_above
    IN  calls = CirclesFor([i \in 1..m_data[1].n |->
                  VAdd(VScale(m_frame_info.w1, FramePixel(fa, i)),
                       VScale(m_frame_info.w2, FramePixel(fa - 1, i)))])

\* C2, on frames that agree on their optional channels: the blend is that of
\* the transformed rows
BlendOfTransformedRowsOnAgreeingFrames ==
  (PlotDrawn /\ ~FEq(m_frame_info.w2, FInt(0)) /\ BlendFramesAgree) =>
    LET fa == m_frame_info.frame_above
    IN  /\ failed = "ok"
        /\ calls = CirclesFor([i \in 1..m_data[1].n |->
                     VAdd(VScale(m_frame_info.w1, FramePixel(fa, i)),
                          VScale(m_frame_info.w2, FramePixel(fa - 1, i)))])

OnFirstFrameDrawn ==
  /\ PlotDrawn
  /\ NumFrames = 2
  /\ FEq(draw_time, m_times[1])
  /\ reads = {0}

\* C4: with at least one frame, a t before the first timestamp resolves to
\* frame 0 and a t after the last timestamp to the last frame, both with
\* w2 = 0, and the circles drawn are the rows of that endpoint frame
ClampedToEndpointFrame ==
  PlotDrawn =>
    LET last == NumFrames - 1
        Endpoint(k) ==
          /\ m_frame_info.frame_above = k
          /\ m_frame_info.w2 = FInt(0)
          /\ failed = "ok"
          /\ calls = CirclesFor([i \in 1..m_data[1].n |-> FramePixel(k, i)])
    IN  /\ FLt(draw_time, m_times[1]) => Endpoint(0)
        /\ FLt(m_times[last + 1], draw_time) => Endpoint(last)

\* C4 witness: two frames drawn at a time after the last timestamp
DrawnAfterLastFrame ==
  /\ PlotDrawn
  /\ NumFrames = 2
  /\ FLt(m_times[2], draw_time)
  /\ m_frame_info.frame_above = 1
  /\ Len(CallsOf("circle")) = m_data[1].n

\* C4 witness: two frames drawn at a time before the first timestamp
DrawnBeforeFirstFrame ==
  /\ PlotDrawn
  /\ NumFrames = 2
  /\ FLt(draw_time, m_times[1])
  /\ m_frame_info.frame_above = 0
  /\ Len(CallsOf("circle")) = m_data[1].n

\* C5: on a series with no registered frame a draw emits no circle and no
\* animated circle and reads no element of the frame list
NoFrameNoRead ==
  (NumFrames = 0 /\ draw_kind # "none") =>
    /\ CallsOf("circle") = <<>>
    /\ CallsOf("add_animated_circle") = <<>>
    /\ reads = {}

\* the add_animated_circle / end_animated_circle calls of the last draw, in order
ChainCalls == SelectSeq(calls, LAMBDA c : c.op \in {"add_animated_circle", "end_animated_circle"})

\* the keyframe chain of row i: one add_animated_circle per frame, in frame
\* order, carrying the frame's timestamp, position and size, then end_animated_circle
RECURSIVE RowChain(_, _)
RowChain(i, f) ==
  IF f >= NumFrames THEN << [op |-> "end_animated_circle", a |-> <<>>] >>
  ELSE LET p == FramePixel(f, i)
       IN  << [op |-> "add_animated_circle", a |-> <<p[1], p[2], p[4], m_times[f + 1]>>] >>
             \o RowChain(i, f + 1)

RECURSIVE AllChains(_)
AllChains(i) == IF i > m_data[1].n THEN <<>> ELSE RowChain(i, 0) \o AllChains(i + 1)

\* an animated draw has just run on a series with at least one frame
FramesDrawn == draw_kind = "frames" /\ NumFrames >= 1

\* C6: draw(animatedBackend) on R rows and F frames emits, row after row, F
\* add_animated_circle calls in frame order (timestamp, position and size of
\* that frame) and then one end_animated_circle: R * F and R calls in all
AnimatedChains ==
  FramesDrawn =>
    /\ ChainCalls = AllChains(1)
    /\ Len(CallsOf("add_animated_circle")) = m_data[1].n * NumFrames
    /\ Len(CallsOf("end_animated_circle")) = m_data[1].n

\* every frame carries the optional channels of frame 0
FramesAgree ==
  \A k \in 1..NumFrames : /\ m_data[k].has_color = m_data[1].has_color
                          /\ m_data[k].has_size = m_data[1].has_size

\* C6, on frames that agree on their optional channels
AnimatedChainsOnAgreeingFrames ==
  (FramesDrawn /\ FramesAgree) =>
    /\ failed = "ok"
    /\ ChainCalls = AllChains(1)
    /\ Len(CallsOf("add_animated_circle")) = m_data[1].n * NumFrames
    /\ Len(CallsOf("end_animated_circle")) = m_data[1].n

\* the frame the j-th add_animated_circle (and the j-th fill_color) of an
\* animated draw is computed from
KeyframeOf(j) == (j - 1) % NumFrames

\* C7: in every draw path a point computed from frames without the colour
\* aesthetic is coloured to_color(0), and a point computed from frames without
\* the size aesthetic has radius exactly 1
AbsentAestheticDefaults ==
  /\ PlotDrawn =>
       /\ (\A k \in reads : ~m_data[k + 1].has_color) =>
            \A j \in 1..Len(CallsOf("fill_color")) : CallsOf("fill_color")[j].a = <<to_color(FInt(0))>>
       /\ (\A k \in reads : ~m_data[k + 1].has_size) =>
            \A j \in 1..Len(CallsOf("circle")) : CallsOf("circle")[j].a[3] = FInt(1)
  /\ FramesDrawn =>
       /\ \A j \in 1..Len(CallsOf("fill_color")) :
            ~m_data[KeyframeOf(j) + 1].has_color => CallsOf("fill_color")[j].a = <<to_color(FInt(0))>>
       /\ \A j \in 1..Len(CallsOf("add_animated_circle")) :
            ~m_data[KeyframeOf(j) + 1].has_size => CallsOf("add_animated_circle")[j].a[3] = FInt(1)

\* C7 witness: a blended draw between two frames that have neither colour nor
\* size draws its circles
BlendedWithoutAesthetics ==
  /\ PlotDrawn
  /\ ~FEq(m_frame_info.w2, FInt(0))
  /\ \A k \in reads : ~m_data[k + 1].has_color /\ ~m_data[k + 1].has_size
  /\ Len(CallsOf("circle")) = 2
  /\ CallsOf("circle")[2].a[3] = FInt(1)

\* C8: in a series where some frame has no size channel no draw fails, and
\* the points of a frame without size are drawn at radius 1 whatever the
\* other frames carry
MissingSizeDrawsDefault ==
  (draw_kind # "none" /\ NumFrames >= 1 /\ \E k \in 1..NumFrames : ~m_data[k].has_size) =>
    /\ failed = "ok"
    /\ (draw_kind = "plot" /\ m_frame_info.w2 = FInt(0)
          /\ ~m_data[m_frame_info.frame_above + 1].has_size) =>
         \A j \in 1..Len(CallsOf("circle")) : CallsOf("circle")[j].a[3] = FInt(1)
    /\ draw_kind = "frames" =>
         \A j \in 1..Len(CallsOf("add_animated_circle")) :
           ~m_data[KeyframeOf(j) + 1].has_size => CallsOf("add_animated_circle")[j].a[3] = FInt(1)

(***************************************************************************)
(* Vector.hpp: round_off                                                   *)
(***************************************************************************)
RECURSIVE Pow10(_)
Pow10(k) == IF k = 0 THEN FInt(1)
            ELSE IF k > 0 THEN FMul(FInt(10), Pow10(k - 1))
            ELSE FDiv(Pow10(k + 1), FInt(10))

\* for (i = 0; tmp >= 1; ++i) tmp /= 10: the number of digits left of the
\* decimal point; the loop does not end for +inf
RECURSIVE DigitsLeft(_)
DigitsLeft(tmp) == IF FGe(tmp, FInt(1)) THEN 1 + DigitsLeft(FDiv(tmp, FInt(10))) ELSE 0

round_off_hangs(x) == x = PosInf

\* mutant of round_off: std::ceil in the place of std::floor
round_off_ceil(x, n) ==
  LET i == DigitsLeft(x)
      d == Pow10(n - i)
  IN  FDiv(FCeil(FAdd(FMul(x, d), Flt(1, 2))), d)

\* one element of round_off(x, n), for x on which the digit loop ends
round_off(x, n) ==
  LET i == DigitsLeft(x)
      d == Pow10(n - i)
  IN  FDiv(FFloor(FAdd(FMul(x, d), Flt(1, 2))), d)

(***************************************************************************)
(* Axis: tick layout                                                       *)
(***************************************************************************)
\* m_pixels.delta()
PixelsDelta == [x |-> FSub(m_pixels.bmax.x, m_pixels.bmin.x), y |-> FSub(m_pixels.bmax.y, m_pixels.bmin.y)]

\* mutant of calculate_num_ticks: with only x requested the y count is
\* n * pix_ratio, not n / pix_ratio
calculate_num_ticks_x_times_ratio ==
  IF m_nx_ticks > 0 /\ m_ny_ticks > 0
  THEN [x |-> FInt(m_nx_ticks), y |-> FInt(m_ny_ticks)]
  ELSE LET pix_ratio == FDiv(PixelsDelta.x, PixelsDelta.y)
       IN  IF m_nx_ticks > 0
           THEN [x |-> FInt(m_nx_ticks), y |-> FFloor(FMul(FInt(m_nx_ticks), pix_ratio))]
           ELSE IF m_ny_ticks > 0
           THEN [x |-> FFloor(FMul(FInt(m_ny_ticks), pix_ratio)), y |-> FInt(m_ny_ticks)]
           ELSE [x |-> FFloor(FMul(FInt(5), pix_ratio)), y |-> FInt(5)]

\* Axis::calculate_num_ticks
calculate_num_ticks ==
  IF m_nx_ticks > 0 /\ m_ny_ticks > 0
  THEN [x |-> FInt(m_nx_ticks), y |-> FInt(m_ny_ticks)]
  ELSE LET pix_ratio == FDiv(PixelsDelta.x, PixelsDelta.y)
       IN  IF m_nx_ticks > 0
           THEN [x |-> FInt(m_nx_ticks), y |-> FFloor(FDiv(FInt(m_nx_ticks), pix_ratio))]
           ELSE IF m_ny_ticks > 0
           THEN [x |-> FFloor(FMul(FInt(m_ny_ticks), pix_ratio)), y |-> FInt(m_ny_ticks)]
           ELSE [x |-> FFloor(FMul(FInt(5), pix_ratio)), y |-> FInt(5)]

\* xy_limits of update_tick_information: the x and y limits, an axis with
\* bmax < bmin replaced by (0, 1)
xy_limits ==
  [aes \in {"x", "y"} |->
     IF FLt(m_limits.bmax[aes], m_limits.bmin[aes])
     THEN [bmin |-> FInt(0), bmax |-> FInt(1)]
     ELSE [bmin |-> m_limits.bmin[aes], bmax |-> m_limits.bmax[aes]]]

\* xy_limits.delta() / n_ticks, the argument of round_off
IdealSpacing(aes) == FDiv(FSub(xy_limits[aes].bmax, xy_limits[aes].bmin), calculate_num_ticks[aes])

\* the ticks of one axis: n (value, position) pairs from tick_min, the
\* positions stepping by dir * tick_dx_pixels
TicksOf(aes, dir) ==
  LET n              == ToInt(calculate_num_ticks[aes])
      lim            == xy_limits[aes]
      tick_dx        == round_off(IdealSpacing(aes), m_sig_digits)
      tick_min       == FMul(FCeil(FDiv(lim.bmin, tick_dx)), tick_dx)
      tick_dx_pixels == FDiv(FMul(tick_dx, PixelsDelta[aes]), FSub(lim.bmax, lim.bmin))
      tick_min_pixels == to_display(aes, tick_min)
  IN  [ val |-> [k \in 1..n |-> FAdd(tick_min, FMul(FInt(k - 1), tick_dx))],
        pos |-> [k \in 1..n |-> FAdd(tick_min_pixels, FMul(FInt(dir * (k - 1)), tick_dx_pixels))] ]

\* m_tick_info.clear(): all four sequences are emptied
clear(info) == EmptyTickInfo

\* what the call finds: more entries in m_tick_info than the present counts,
\* an m_tick_info that is already that of the present limits, viewport and
\* counts
TicksFound ==
  [ shrunk |-> /\ Len(m_tick_info.x_val) > ToInt(calculate_num_ticks.x)
               /\ Len(m_tick_info.y_val) > ToInt(calculate_num_ticks.y),
    again  |-> tick_state = "current" ]

\* mutant of update_tick_information: only the x ticks are cleared and
\* rebuilt, the y ticks are left as they were
update_tick_information_x_only ==
  /\ tick_state # "hung"
  /\ IF round_off_hangs(IdealSpacing("x")) \/ round_off_hangs(IdealSpacing("y"))
     THEN /\ tick_state' = "hung"
          /\ UNCHANGED <<m_tick_info, ticks_before>>
     ELSE \E tx \in {TicksOf("x", 1)} :
          /\ m_tick_info' = [m_tick_info EXCEPT !.x_val = tx.val, !.x_pos = tx.pos]
          /\ tick_state' = "current"
          /\ ticks_before' = TicksFound
  /\ UNCHANGED <<m_limits, m_pixels, m_nx_ticks, m_ny_ticks>>

\* Axis::update_tick_information
update_tick_information ==
  /\ tick_state # "hung"
  /\ IF round_off_hangs(IdealSpacing("x")) \/ round_off_hangs(IdealSpacing("y"))
     THEN \* round_off does not return; m_tick_info.clear() is never reached
          /\ tick_state' = "hung"
          /\ UNCHANGED <<m_tick_info, ticks_before>>
     ELSE \E tx \in {TicksOf("x", 1)} : \E ty \in {TicksOf("y", -1)} :
          LET c == clear(m_tick_info)
          IN  /\ m_tick_info' = [x_val |-> c.x_val \o tx.val, x_pos |-> c.x_pos \o tx.pos,
                                 y_val |-> c.y_val \o ty.val, y_pos |-> c.y_pos \o ty.pos]
              /\ tick_state' = "current"
              /\ ticks_before' = TicksFound
  /\ UNCHANGED <<m_limits, m_pixels, m_nx_ticks, m_ny_ticks>>

Stale == IF tick_state = "current" THEN "stale" ELSE tick_state

\* the x and y limits are written (xlim, ylim, or data added to the axis)
set_limits(box) ==
  /\ tick_state # "hung"
  /\ m_limits' = [bmin |-> [m_limits.bmin EXCEPT !.x = box.xmin, !.y = box.ymin],
                  bmax |-> [m_limits.bmax EXCEPT !.x = box.xmax, !.y = box.ymax]]
  /\ tick_state' = Stale
  /\ ticks_before' = NoUpdateYet
  /\ UNCHANGED <<m_pixels, m_nx_ticks, m_ny_ticks, m_tick_info>>

\* the viewport is replaced on resize
resize(pixels) ==
  /\ tick_state # "hung"
  /\ m_pixels' = pixels
  /\ tick_state' = Stale
  /\ ticks_before' = NoUpdateYet
  /\ UNCHANGED <<m_limits, m_nx_ticks, m_ny_ticks, m_tick_info>>

\* the requested tick counts are written
set_ticks(nx, ny) ==
  /\ tick_state # "hung"
  /\ m_nx_ticks' = nx
  /\ m_ny_ticks' = ny
  /\ tick_state' = Stale
  /\ ticks_before' = NoUpdateYet
  /\ UNCHANGED <<m_limits, m_pixels, m_tick_info>>

\* Limits as constructed: empty, bmin the largest and bmax the lowest float
EmptyLimits ==
  [ bmin |-> [x |-> FInt(FltMax), y |-> FInt(FltMax), color |-> FInt(FltMax), size |-> FInt(FltMax)],
    bmax |-> [x |-> FInt(-FltMax), y |-> FInt(-FltMax), color |-> FInt(-FltMax), size |-> FInt(-FltMax)] ]

\* the limits a caller sets: the box of spec section 8, one with fractional
\* and negative bounds, a single x value, an x range below the rounding
\* precision, and no x data
LimitBoxes ==
  { [xmin |-> FInt(0), xmax |-> FInt(10), ymin |-> FInt(0), ymax |-> FInt(10)],
    [xmin |-> Flt(-7, 2), xmax |-> FInt(4), ymin |-> Flt(1, 2), ymax |-> FInt(3)],
    [xmin |-> FInt(5), xmax |-> FInt(5), ymin |-> FInt(0), ymax |-> FInt(10)],
    [xmin |-> FInt(0), xmax |-> Flt(1, 100), ymin |-> FInt(0), ymax |-> FInt(10)],
    [xmin |-> FInt(FltMax), xmax |-> FInt(-FltMax), ymin |-> FInt(0), ymax |-> FInt(10)] }

\* the viewports: square, twice as wide as high, twice as high as wide
PixelBoxes ==
  { [bmin |-> [x |-> FInt(0), y |-> FInt(0)], bmax |-> [x |-> FInt(100), y |-> FInt(100)]],
    [bmin |-> [x |-> FInt(10), y |-> FInt(20)], bmax |-> [x |-> FInt(210), y |-> FInt(120)]],
    [bmin |-> [x |-> FInt(0), y |-> FInt(0)], bmax |-> [x |-> FInt(100), y |-> FInt(200)]] }

\* the requested tick counts (nx, ny); 0 asks for the automatic count; with
\* 201 ticks the ideal spacing of a unit range, 1/201, is below the two
\* decimals round_off keeps
TickCounts == { <<0, 0>>, <<4, 0>>, <<0, 3>>, <<2, 3>>, <<1, 0>>, <<201, 0>> }

SetLimits == (\E box \in LimitBoxes : set_limits(box)) /\ UNCHANGED points_vars /\ UNCHANGED plots_vars /\ UNCHANGED round_vars

Resize == (\E pixels \in PixelBoxes : resize(pixels)) /\ UNCHANGED points_vars /\ UNCHANGED plots_vars /\ UNCHANGED round_vars

SetTicks == (\E c \in TickCounts : set_ticks(c[1], c[2])) /\ UNCHANGED points_vars /\ UNCHANGED plots_vars /\ UNCHANGED round_vars

UpdateTickInformation == update_tick_information /\ UNCHANGED points_vars /\ UNCHANGED plots_vars /\ UNCHANGED round_vars

\* Axis::Axis(parent, area): no limits yet, automatic tick counts, no ticks
AxisInit ==
  /\ m_times = <<>>
  /\ m_data = <<>>
  /\ m_frame_info = [frame_above |-> 0, w1 |-> FInt(1), w2 |-> FInt(0)]
  /\ draw_kind = "none"
  /\ draw_time = FInt(0)
  /\ calls = <<>>
  /\ reads = {}
  /\ failed = "ok"
  /\ row_reads = {}
  /\ m_limits = EmptyLimits
  /\ m_pixels \in PixelBoxes
  /\ m_nx_ticks = 0
  /\ m_ny_ticks = 0
  /\ m_tick_info = EmptyTickInfo
  /\ tick_state = "none"
  /\ ticks_before = NoUpdateYet
  /\ m_children = <<>>
  /\ axis_call = NoCall
  /\ rounding = Unrounded(FInt(0), m_sig_digits)

AxisNext == SetLimits \/ Resize \/ SetTicks \/ UpdateTickInformation

SpecAxis == AxisInit /\ [][AxisNext]_vars

(***************************************************************************)
(* Properties of the Axis tick layout (checked under SpecAxis).            *)
(***************************************************************************)
\* floor(a * w / h) and floor(a * h / w) for the viewport width w and height
\* h, in integer arithmetic
FloorTimesRatio(a) ==
  (a * PixelsDelta.x.n * PixelsDelta.y.d) \div (PixelsDelta.x.d * PixelsDelta.y.n)

FloorOverRatio(a) ==
  (a * PixelsDelta.x.d * PixelsDelta.y.n) \div (PixelsDelta.x.n * PixelsDelta.y.d)

\* C9: calculate_num_ticks() is (nx, ny) when both counts are requested,
\* (nx, floor(nx / r)) when only x is, (floor(ny * r), ny) when only y is and
\* (floor(5 * r), 5) when neither is, r the viewport's width / height: (5, 5)
\* on a square viewport and (10, 5) on one twice as wide as high; a finished
\* update_tick_information holds that many ticks
NumTicksByRatio ==
  LET got == calculate_num_ticks
      nx  == m_nx_ticks
      ny  == m_ny_ticks
  IN  /\ (nx > 0 /\ ny > 0) => got = [x |-> FInt(nx), y |-> FInt(ny)]
      /\ (nx > 0 /\ ny <= 0) => got = [x |-> FInt(nx), y |-> FInt(FloorOverRatio(nx))]
      /\ (nx <= 0 /\ ny > 0) => got = [x |-> FInt(FloorTimesRatio(ny)), y |-> FInt(ny)]
      /\ (nx <= 0 /\ ny <= 0) => got = [x |-> FInt(FloorTimesRatio(5)), y |-> FInt(5)]
      /\ (nx <= 0 /\ ny <= 0 /\ PixelsDelta.x = PixelsDelta.y) => got = [x |-> FInt(5), y |-> FInt(5)]
      /\ (nx <= 0 /\ ny <= 0 /\ PixelsDelta.x = FMul(FInt(2), PixelsDelta.y))
           => got = [x |-> FInt(10), y |-> FInt(5)]
      /\ tick_state = "current" =>
           /\ FInt(Len(m_tick_info.x_val)) = got.x
           /\ FInt(Len(m_tick_info.y_val)) = got.y

\* C9 witness: 4 x ticks requested on a viewport twice as wide as high give
\* floor(4 / 2) = 2 y ticks
TwoTicksFromFour ==
  /\ tick_state = "current"
  /\ m_nx_ticks = 4
  /\ m_ny_ticks = 0
  /\ PixelsDelta.x = FMul(FInt(2), PixelsDelta.y)
  /\ Len(m_tick_info.x_val) = 4
  /\ Len(m_tick_info.y_val) = 2

\* v is an integer multiple of the spacing s
IsMultiple(v, s) == IsFinite(s) /\ s.n # 0 /\ IsFinite(v) /\ FDiv(v, s).d = 1

\* the ticks val / pos of one axis are n pairs, the values from the smallest
\* multiple of the spacing >= the minimum in steps of the spacing, the
\* positions in steps of dir * the spacing in pixels
AxisTicksLaidOut(aes, val, pos, dir) ==
  LET n  == ToInt(calculate_num_ticks[aes])
      lo == xy_limits[aes].bmin
      hi == xy_limits[aes].bmax
      sp == round_off(IdealSpacing(aes), m_sig_digits)
      sp_pixels == FDiv(FMul(sp, PixelsDelta[aes]), FSub(hi, lo))
  IN  /\ Len(val) = n
      /\ Len(pos) = n
      /\ n >= 1 =>
           /\ val[1] = FMul(FCeil(FDiv(lo, sp)), sp)
           /\ IsMultiple(val[1], sp)
           /\ FGe(val[1], lo)
           /\ FLt(FSub(val[1], sp), lo)
      /\ \A k \in 1..n : val[k] = FAdd(val[1], FMul(FInt(k - 1), sp))
      /\ \A k \in 1..(n - 1) : FSub(pos[k + 1], pos[k]) = FMul(FInt(dir), sp_pixels)

\* the limits (0,0)-(10,10) on a 100 x 100 viewport with automatic counts
ExampleAxis ==
  /\ m_limits.bmin.x = FInt(0) /\ m_limits.bmin.y = FInt(0)
  /\ m_limits.bmax.x = FInt(10) /\ m_limits.bmax.y = FInt(10)
  /\ PixelsDelta = [x |-> FInt(100), y |-> FInt(100)]
  /\ m_nx_ticks = 0 /\ m_ny_ticks = 0

EvenTicks == <<FInt(0), FInt(2), FInt(4), FInt(6), FInt(8)>>

\* C10: after update_tick_information() each axis holds num_ticks (value,
\* position) pairs, value k = tick_min + k * spacing, spacing =
\* round_off((max - min) / num_ticks, significant digits), tick_min =
\* ceil(min / spacing) * spacing, the smallest multiple of spacing >= min; x
\* positions step by + and y positions by - the spacing in pixels; the limits
\* (0,0)-(10,10) on 100 x 100 pixels give 5 + 5 ticks 0, 2, 4, 6, 8
TicksLaidOut ==
  tick_state = "current" =>
    /\ AxisTicksLaidOut("x", m_tick_info.x_val, m_tick_info.x_pos, 1)
    /\ AxisTicksLaidOut("y", m_tick_info.y_val, m_tick_info.y_pos, -1)
    /\ ExampleAxis => m_tick_info.x_val = EvenTicks /\ m_tick_info.y_val = EvenTicks

\* the spacing of the axis is a positive finite number
SpacingPositive(aes) ==
  LET sp == round_off(IdealSpacing(aes), m_sig_digits)
  IN  IsFinite(sp) /\ sp.n > 0

\* C10, on axes whose spacing is positive
TicksLaidOutOnPositiveSpacing ==
  tick_state = "current" =>
    /\ SpacingPositive("x") => AxisTicksLaidOut("x", m_tick_info.x_val, m_tick_info.x_pos, 1)
    /\ SpacingPositive("y") => AxisTicksLaidOut("y", m_tick_info.y_val, m_tick_info.y_pos, -1)
    /\ ExampleAxis => m_tick_info.x_val = EvenTicks /\ m_tick_info.y_val = EvenTicks

\* the example of C10 is reached
ExampleTicksLaidOut ==
  /\ tick_state = "current"
  /\ ExampleAxis
  /\ m_tick_info.x_val = EvenTicks
  /\ m_tick_info.y_val = EvenTicks

\* the tick values of an axis
TickValues(aes) == IF aes = "x" THEN m_tick_info.x_val ELSE m_tick_info.y_val

\* the tick positions of an axis
TickPositions(aes) == IF aes = "x" THEN m_tick_info.x_pos ELSE m_tick_info.y_pos

\* the limits of the axis are inverted: no data was ever added
Inverted(aes) == FLt(m_limits.bmax[aes], m_limits.bmin[aes])

\* the tick values of an inverted axis are those of the range [0, 1]: n >= 0
\* values k * round_off(1 / n, significant digits) from 0, none of them NaN
UnitRangeTicks(aes) ==
  LET n   == ToInt(calculate_num_ticks[aes])
      sp  == round_off(FDiv(FInt(1), FInt(n)), m_sig_digits)
      val == TickValues(aes)
  IN  /\ n >= 0
      /\ Len(val) = n
      /\ \A k \in 1..n : ~IsNaN(val[k]) /\ val[k] = FMul(FInt(k - 1), sp)

\* the tick values of an axis that is not inverted come from its own limits
OwnRangeTicks(aes) ==
  LET n   == ToInt(calculate_num_ticks[aes])
      lo  == m_limits.bmin[aes]
      hi  == m_limits.bmax[aes]
      sp  == round_off(FDiv(FSub(hi, lo), FInt(n)), m_sig_digits)
      val == TickValues(aes)
  IN  /\ Len(val) = n
      /\ \A k \in 1..n : val[k] = FAdd(FMul(FCeil(FDiv(lo, sp)), sp), FMul(FInt(k - 1), sp))

\* C11: after update_tick_information() an axis whose limits are inverted
\* (bmax < bmin) has the ticks of the range [0, 1] - spacing round_off(1 /
\* num_ticks, significant digits), first tick 0, no NaN value, no negative
\* count - and the other axis, if not inverted, the ticks of its own limits
InvertedLimitsUseUnitRange ==
  tick_state = "current" =>
    \A aes \in {"x", "y"} :
      IF Inverted(aes) THEN UnitRangeTicks(aes) ELSE OwnRangeTicks(aes)

\* C11, on inverted axes whose spacing is positive
InvertedLimitsUseUnitRangeOnPositiveSpacing ==
  tick_state = "current" =>
    \A aes \in {"x", "y"} :
      IF Inverted(aes) THEN SpacingPositive(aes) => UnitRangeTicks(aes) ELSE OwnRangeTicks(aes)

\* an inverted x axis beside a y axis with limits has been laid out
InvertedAxisLaidOut ==
  /\ tick_state = "current"
  /\ Inverted("x") /\ ~Inverted("y")
  /\ SpacingPositive("x")
  /\ Len(m_tick_info.x_val) >= 2
  /\ m_tick_info.x_val[1] = FInt(0)
  /\ m_tick_info.y_val # <<>>

\* every tick value and position of the axis is a finite number
TicksFinite(aes) ==
  /\ \A k \in 1..Len(TickValues(aes)) : IsFinite(TickValues(aes)[k])
  /\ \A k \in 1..Len(TickPositions(aes)) : IsFinite(TickPositions(aes)[k])

\* C12: for all data limits and every viewport of positive width and height
\* update_tick_information() returns, with a finite and strictly positive
\* tick spacing on each axis and only finite tick values and positions
TickLayoutUsable ==
  /\ tick_state # "hung"
  /\ tick_state = "current" =>
       \A aes \in {"x", "y"} : SpacingPositive(aes) /\ TicksFinite(aes)

\* C12, where the ideal spacing is finite and rounds to a positive spacing
TickLayoutUsableOnPositiveSpacing ==
  tick_state = "current" =>
    \A aes \in {"x", "y"} : SpacingPositive(aes) => TicksFinite(aes)

\* update_tick_information() has been entered with a tick count of 0: its
\* round_off is given an infinite spacing and does not return
TickUpdateHung == tick_state = "hung"

\* a layout was computed on an axis whose spacing rounded to 0
ZeroSpacingLaidOut ==
  /\ tick_state = "current"
  /\ \E aes \in {"x", "y"} :
       /\ round_off(IdealSpacing(aes), m_sig_digits) = FInt(0)
       /\ TickValues(aes) # <<>>
       /\ \A k \in 1..Len(TickValues(aes)) : IsNaN(TickValues(aes)[k])

\* the tick layout of the present limits, viewport and tick counts
LayoutOfConfiguration ==
  [ x_val |-> TicksOf("x", 1).val, x_pos |-> TicksOf("x", 1).pos,
    y_val |-> TicksOf("y", -1).val, y_pos |-> TicksOf("y", -1).pos ]

\* C13: after update_tick_information() TickInfo is the layout of the present
\* limits, viewport and tick counts and nothing else - a second call in a row
\* writes the same TickInfo again - and no entry of an earlier computation
\* survives: x_val and x_pos have the present x count of entries, y_val and
\* y_pos the present y count, also when TickInfo held more entries before
TickInfoOfConfiguration ==
  tick_state = "current" =>
    /\ m_tick_info = LayoutOfConfiguration
    /\ Len(m_tick_info.x_val) = ToInt(calculate_num_ticks.x)
    /\ Len(m_tick_info.x_pos) = ToInt(calculate_num_ticks.x)
    /\ Len(m_tick_info.y_val) = ToInt(calculate_num_ticks.y)
    /\ Len(m_tick_info.y_pos) = ToInt(calculate_num_ticks.y)

\* C13 witness: an update that found more x and more y entries than the
\* present counts has rebuilt TickInfo
TickCountShrunk ==
  /\ tick_state = "current"
  /\ ticks_before.shrunk
  /\ Len(m_tick_info.x_val) >= 1
  /\ Len(m_tick_info.y_val) >= 1

\* update_tick_information() was called twice in a row
UpdatedTwice ==
  /\ tick_state = "current"
  /\ ticks_before.again
  /\ m_tick_info.x_val # <<>>

(***************************************************************************)
(* Axis: series registration and lookup.                                   *)
(***************************************************************************)
\* the length of RGBA::defaults, the fixed palette of default colours; the
\* palette is declared outside the sources at hand, a short one stands for it
PaletteSize == 3

\* RGBA::defaults[k]: colour k of the palette; an index past the end of the
\* palette reads out of bounds - the call faults or yields any colour, one of
\* the palette or none of it (-1)
defaults(k) ==
  IF k < PaletteSize
  THEN { [fault |-> FALSE, color |-> k] }
  ELSE { [fault |-> TRUE, color |-> -1] }
         \cup { [fault |-> FALSE, color |-> c] : c \in -1..(PaletteSize - 1) }

\* the series plot_impl is given: a new Points, Line or Histogram of this
\* axis; id tells the objects apart
make_shared(kind) == [kind |-> kind, id |-> Len(m_children), times |-> <<>>, color |-> -1, pixels |-> m_pixels]

\* mutant of plot_impl: the colour is taken after the series is appended
plot_impl_color_after_push(plot) ==
  /\ axis_call.outcome # "fault"
  /\ Len(m_children) < MaxChildren
  /\ \E c \in defaults(Len(m_children) + 1) :
       IF c.fault
       THEN /\ axis_call' = [op |-> "register", n |-> Len(m_children), outcome |-> "fault", id |-> -1]
            /\ UNCHANGED m_children
       ELSE /\ m_children' = Append(m_children,
                               [plot EXCEPT !.times = <<FInt(0)>>, !.color = c.color, !.pixels = m_pixels])
            /\ axis_call' = [op |-> "register", n |-> Len(m_children), outcome |-> "ok", id |-> plot.id]

\* Axis::plot_impl(plot, transform, values): the series gets its first frame
\* at time 0, the palette colour at the present child count and the
\* viewport, and is appended; the transform and the values are kept by the
\* series and enter neither its colour nor its place
plot_impl(plot) ==
  /\ axis_call.outcome # "fault"
  /\ Len(m_children) < MaxChildren
  /\ \E c \in defaults(Len(m_children)) :
       IF c.fault
       THEN /\ axis_call' = [op |-> "register", n |-> Len(m_children), outcome |-> "fault", id |-> -1]
            /\ UNCHANGED m_children
       ELSE /\ m_children' = Append(m_children,
                               [plot EXCEPT !.times = <<FInt(0)>>, !.color = c.color, !.pixels = m_pixels])
            /\ axis_call' = [op |-> "register", n |-> Len(m_children), outcome |-> "ok", id |-> plot.id]

\* Axis::plot(n): m_children.at(n), which throws std::out_of_range for an n
\* that is not an index (a negative n converts to a large unsigned one)
plot(n) ==
  /\ axis_call.outcome # "fault"
  /\ axis_call' = IF n >= 0 /\ n < Len(m_children)
                  THEN [op |-> "plot", n |-> n, outcome |-> "returned", id |-> m_children[n + 1].id]
                  ELSE [op |-> "plot", n |-> n, outcome |-> "out_of_range", id |-> -1]
  /\ UNCHANGED m_children

\* Axis::points
points == plot_impl(make_shared("points")) /\ UNCHANGED points_vars /\ UNCHANGED axis_vars /\ UNCHANGED round_vars

\* Axis::line
line == plot_impl(make_shared("line")) /\ UNCHANGED points_vars /\ UNCHANGED axis_vars /\ UNCHANGED round_vars

\* Axis::histogram
histogram == plot_impl(make_shared("histogram")) /\ UNCHANGED points_vars /\ UNCHANGED axis_vars /\ UNCHANGED round_vars

\* the indices a caller asks for: every index of a full axis, one below, one past
PlotIndices == -1..MaxChildren

Plot == (\E n \in PlotIndices : plot(n)) /\ UNCHANGED points_vars /\ UNCHANGED axis_vars /\ UNCHANGED round_vars

PlotsNext == points \/ line \/ histogram \/ Plot

SpecPlots == AxisInit /\ [][PlotsNext]_vars

(***************************************************************************)
(* Properties of registration and lookup (checked under SpecPlots).        *)
(***************************************************************************)
\* child k is the k-th registered series and has palette colour k
ChildInPlace(k) ==
  /\ m_children[k + 1].id = k
  /\ m_children[k + 1].color = k
  /\ m_children[k + 1].times = <<FInt(0)>>

\* the last plot(n) returned the n-th registered series, or failed for an n
\* outside 0..count-1
LookupByIndex ==
  axis_call.op = "plot" =>
    IF axis_call.n \in 0..(Len(m_children) - 1)
    THEN axis_call.outcome = "returned" /\ axis_call.id = axis_call.n
    ELSE axis_call.outcome = "out_of_range"

\* C14: for any sequence of registrations the k-th registered series has the
\* palette colour with index k, the child count before it was appended,
\* stands after all earlier children and is what plot(k) returns from then
\* on; plot(n) with n outside 0..count-1 fails
RegisteredInOrder ==
  /\ axis_call.outcome # "fault"
  /\ \A k \in 0..(Len(m_children) - 1) : ChildInPlace(k)
  /\ LookupByIndex

\* C14, for the registrations the palette has a colour for
RegisteredInOrderWithinPalette ==
  /\ axis_call.outcome = "fault" => axis_call.n >= PaletteSize
  /\ \A k \in 0..(Len(m_children) - 1) :
       IF k < PaletteSize THEN ChildInPlace(k) ELSE m_children[k + 1].id = k
  /\ LookupByIndex

\* plot(0) returned the first series after two more were registered
FirstSeriesLookedUp ==
  /\ Len(m_children) = 3
  /\ axis_call = [op |-> "plot", n |-> 0, outcome |-> "returned", id |-> 0]
  /\ m_children[1].color = 0 /\ m_children[3].color = 2

\* a series was registered on an axis that already has as many series as the
\* palette has colours
RegisteredPastPalette ==
  /\ Len(m_children) > PaletteSize
  /\ m_children[PaletteSize + 1].color # PaletteSize

(***************************************************************************)
(* round_off as a function: it is given a value and a digit count, and is  *)
(* then given its own result.                                              *)
(***************************************************************************)
\* the values of the examples: 1234.5, 0.01234, 99.6, 0.996, their negatives,
\* the tie 0.005 and a value just below it
RoundExamples ==
  { Flt(2469, 2), Flt(617, 50000), Flt(498, 5), Flt(249, 250),
    Flt(-2469, 2), Flt(-617, 50000), Flt(-498, 5), Flt(-249, 250),
    Flt(1, 200), Flt(499, 100000) }

\* the values round_off is given: the examples and a grid of integers,
\* sevenths, hundredths and thousandths on both sides of 0
RoundInputs ==
  RoundExamples \cup { Flt(m, q) : m \in (-MaxNumer)..MaxNumer, q \in {1, 7, 100, 1000} }

\* round_off(x, n) of a one-element vector
RoundOnce ==
  /\ rounding.stage = "input"
  /\ rounding' = [rounding EXCEPT !.stage = "once", !.once = round_off(rounding.x, rounding.n),
                                  !.twice = round_off(rounding.x, rounding.n)]
  /\ UNCHANGED points_vars /\ UNCHANGED axis_vars /\ UNCHANGED plots_vars

\* round_off(y, n) of the result y of round_off(x, n)
RoundTwice ==
  /\ rounding.stage = "once"
  /\ rounding' = [rounding EXCEPT !.stage = "twice", !.twice = round_off(rounding.once, rounding.n)]
  /\ UNCHANGED points_vars /\ UNCHANGED axis_vars /\ UNCHANGED plots_vars

RoundInit ==
  /\ m_times = <<>>
  /\ m_data = <<>>
  /\ m_frame_info = [frame_above |-> 0, w1 |-> FInt(1), w2 |-> FInt(0)]
  /\ draw_kind = "none"
  /\ draw_time = FInt(0)
  /\ calls = <<>>
  /\ reads = {}
  /\ failed = "ok"
  /\ row_reads = {}
  /\ m_limits = EmptyLimits
  /\ m_pixels \in DrawPixels
  /\ m_nx_ticks = 0
  /\ m_ny_ticks = 0
  /\ m_tick_info = EmptyTickInfo
  /\ tick_state = "none"
  /\ ticks_before = NoUpdateYet
  /\ m_children = <<>>
  /\ axis_call = NoCall
  /\ \E x \in RoundInputs : \E n \in 1..MaxDigits : rounding = Unrounded(x, n)

RoundNext == RoundOnce \/ RoundTwice

SpecRound == RoundInit /\ [][RoundNext]_vars

(***************************************************************************)
(* Properties of round_off (checked under SpecRound).                      *)
(***************************************************************************)
\* the decimal exponent of a > 0: the e with 10^(e-1) <= a < 10^e
RECURSIVE Exponent(_)
Exponent(a) ==
  IF FGe(a, FInt(1)) THEN 1 + Exponent(FDiv(a, FInt(10)))
  ELSE IF FLt(a, Flt(1, 10)) THEN Exponent(FMul(a, FInt(10))) - 1
  ELSE 0

\* x rounded half-up to n significant decimal digits
SignificantDigits(x, n) ==
  IF x.n = 0 THEN x
  ELSE LET unit == Pow10(Exponent([n |-> AbsI(x.n), d |-> x.d]) - n)
       IN  FMul(FFloor(FAdd(FDiv(x, unit), Flt(1, 2))), unit)

\* C15: round_off(x, n) is x rounded half-up to n significant decimal digits
\* whatever the magnitude of x: round_off(1234.5, 2) = 1200 and
\* round_off(0.01234, 2) = 0.012
RoundsToSignificantDigits ==
  rounding.stage # "input" =>
    /\ rounding.once = SignificantDigits(rounding.x, rounding.n)
    /\ (rounding.x = Flt(2469, 2) /\ rounding.n = 2) => rounding.once = FInt(1200)
    /\ (rounding.x = Flt(617, 50000) /\ rounding.n = 2) => rounding.once = Flt(12, 1000)

\* C15, for the values from 0.1 up
RoundsToSignificantDigitsFromTenth ==
  (rounding.stage # "input" /\ FGe(rounding.x, Flt(1, 10))) =>
    /\ rounding.once = SignificantDigits(rounding.x, rounding.n)
    /\ (rounding.x = Flt(2469, 2) /\ rounding.n = 2) => rounding.once = FInt(1200)

\* round_off(1234.5, 2) gave 1200
RoundedToHundreds ==
  /\ rounding.stage = "once"
  /\ rounding.x = Flt(2469, 2) /\ rounding.n = 2
  /\ rounding.once = FInt(1200)

\* round_off(0.01234, 2) gave 0.01
RoundedToTwoDecimals ==
  /\ rounding.stage = "once"
  /\ rounding.x = Flt(617, 50000) /\ rounding.n = 2
  /\ rounding.once = Flt(1, 100)

SmallRoundedTwice ==
  /\ rounding.stage = "twice"
  /\ \/ rounding.x = Flt(249, 250) /\ rounding.n = 2 /\ rounding.once = FInt(1)
     \/ rounding.x = Flt(-249, 250) /\ rounding.n = 2 /\ rounding.once = FInt(-1)

(***************************************************************************)
(* Points on series whose frames differ in their row counts.               *)
(***************************************************************************)
\* the frames a caller may register without regard to the row count of the
\* first: any row count, with colour and size or with neither
AnyRowsFramesFor(k) == { MkFrame(k, r, b, b) : r \in 1..MaxRows, b \in BOOLEAN }

AddAnyFrame == (\E data \in AnyRowsFramesFor(Len(m_data)) : \E time \in Times \cup {FInt(0)} :
                  add_frame(data, time))
               /\ UNCHANGED axis_vars /\ UNCHANGED plots_vars /\ UNCHANGED round_vars

RaggedNext == AddAnyFrame \/ Draw \/ DrawAnimated

SpecRagged == Init /\ [][RaggedNext]_vars

(***************************************************************************)
(* Properties of the row loops (checked under SpecRagged).                 *)
(***************************************************************************)
\* the frames the last draw read, those that m_data holds
FramesRead == { f \in reads : InRange(f) }

\* every frame read has at least the rows of frame 0
ReadFramesLongEnough == \A f \in FramesRead : m_data[f + 1].n >= m_data[1].n

\* one stroke_width(0), then for each of rows rows a fill_color immediately
\* followed by a circle
StrokeThenCircles(rows) ==
  /\ Len(calls) = 1 + 2 * rows
  /\ calls[1] = Call("stroke_width", <<FInt(0)>>)
  /\ \A i \in 1..rows : calls[2 * i].op = "fill_color" /\ calls[2 * i + 1].op = "circle"

\* one stroke_width(0), then rows keyframe chains of one keyframe per frame
StrokeThenChains(rows) ==
  /\ Len(calls) = 1 + rows * (2 * NumFrames + 1)
  /\ calls[1] = Call("stroke_width", <<FInt(0)>>)
  /\ Len(SelectSeq(calls, LAMBDA c : c.op = "end_animated_circle")) = rows
  /\ \A i \in 1..rows : calls[1 + i * (2 * NumFrames + 1)].op = "end_animated_circle"

\* the emitted primitives are those of rows(frame 0) rows
PrimitivesOfFirstFrameRows ==
  /\ draw_kind = "plot" => StrokeThenCircles(m_data[1].n)
  /\ draw_kind = "frames" => StrokeThenChains(m_data[1].n)

\* the rows read are rows of frame 0's row range, and they are rows of the
\* frames read exactly if those have at least as many rows
RowsReadOfFirstFrameRange ==
  /\ row_reads \subseteq 0..(m_data[1].n - 1)
  /\ ReadFramesLongEnough => failed # "fault"
  /\ ReadFramesLongEnough => \A f \in FramesRead : row_reads \subseteq 0..(m_data[f + 1].n - 1)
  /\ (~ReadFramesLongEnough /\ failed # "exception") =>
       \E f \in FramesRead : \E i \in row_reads : i >= m_data[f + 1].n

\* C17: a draw emits the primitives of rows(frame 0) rows whichever frames it
\* reads - draw(backend, time) one stroke_width(0) and then, per row of frame
\* 0, a fill_color immediately followed by a circle; draw(animatedBackend)
\* rows(frame 0) keyframe chains - and every row index it reads of frame
\* frame_above or frame_above - 1 is in 0..rows(frame 0)-1, which is within
\* that frame only if the frame has at least the rows of frame 0
RowsOfFirstFrame ==
  (draw_kind # "none" /\ NumFrames >= 1) =>
    /\ RowsReadOfFirstFrameRange
    /\ ReadFramesLongEnough => PrimitivesOfFirstFrameRows

\* the frames of the series carry the same optional channels
AllFramesAgree ==
  \A k \in 1..NumFrames : m_data[k].has_color = m_data[1].has_color /\ m_data[k].has_size = m_data[1].has_size

\* C17, on series whose frames carry the same optional channels
RowsOfFirstFrameOnAgreeingFrames ==
  (draw_kind # "none" /\ NumFrames >= 1 /\ AllFramesAgree) =>
    /\ RowsReadOfFirstFrameRange
    /\ ReadFramesLongEnough => PrimitivesOfFirstFrameRows

\* a blended draw read a frame with more rows than frame 0 and drew frame 0's rows
LongerFrameDrawn ==
  /\ draw_kind = "plot"
  /\ NumFrames = 2
  /\ m_data[1].n = 1 /\ m_data[2].n = 2
  /\ reads = {0, 1}
  /\ failed = "ok"
  /\ Len(CallsOf("circle")) = 1

\* a draw read a row past the end of a frame with fewer rows than frame 0
ShorterFrameRead ==
  /\ draw_kind # "none"
  /\ NumFrames = 2
  /\ m_data[2].n < m_data[1].n
  /\ 1 \in reads
  /\ m_data[2].n \in row_reads

\* a draw of frames that have the rows of frame 0 ended in an exception
\* after stroke_width(0)
LongEnoughFramesThrew ==
  /\ draw_kind # "none"
  /\ NumFrames >= 1
  /\ ReadFramesLongEnough
  /\ failed = "exception"
  /\ Len(calls) < 1 + 2 * m_data[1].n

====
